---- MODULE Spec2Model ----
(***************************************************************************)
(* Model of the Bepshapati backend: the serverless entry point `handler`,  *)
(* the lazy connection guard `ensureDBConnected`, POST /api/products and   *)
(* PUT /api/products/:id, running against a document store whose single   *)
(* document operations (insertOne, updateOne) are atomic.                  *)
(*                                                                         *)
(* A JSON body is a function from keys to values.  A key is the sequence   *)
(* of its dot-separated segments: "comment" is <<"comment">> and           *)
(* "ratings.nifar" is <<"ratings", "nifar">>, which is also how the store  *)
(* reads the key of a $set document.  Dates are integers.                  *)
(***************************************************************************)
EXTENDS Integers, Sequences, FiniteSets, TLC

\* ---------------------------------------------------------------- bounds
MaxBodyKeys == 2

\* two invocations of handler, which may overlap in any way
Requests == {"r1", "r2"}

\* ---------------------------------------------------------------- data
Reviewers == {"nifar", "afia", "sijil", "naim"}

ExistingId == "507f1f77bcf86cd799439011"
FreshId == "507f1f77bcf86cd799439099"
MalformedId == "not-an-id"
Ids == {ExistingId, FreshId, MalformedId}

\* length of the id string and whether it is made of hex digits only
IdLen(id) == IF id = MalformedId THEN 9 ELSE 24
IdIsHex(id) == id # MalformedId

\* ObjectId.isValid on a string: 24 hex characters
ObjectIdIsValid(id) == IdLen(id) = 24 /\ IdIsHex(id)

NoTime == -1
ClientDate == 99

ZeroRatings == [k \in Reviewers |-> 0]

\* the document a previous POST {name: "chair", imageUrls: []} left in the store
SeedProduct ==
    [name |-> "chair", imageUrls |-> <<>>, ratings |-> ZeroRatings,
     comment |-> "", createdAt |-> 0, lastModifiedAt |-> NoTime]

NoDoc ==
    [name |-> "", imageUrls |-> <<>>, ratings |-> ZeroRatings,
     comment |-> "", createdAt |-> NoTime, lastModifiedAt |-> NoTime]

EmptyBody == [k \in {} |-> 0]

\* ---------------------------------------------------------------- request bodies
CommentKey == <<"comment">>
RatingsKey == <<"ratings">>
NameKey == <<"name">>
CreatedAtKey == <<"createdAt">>
ImageUrlsKey == <<"imageUrls">>
LastModifiedAtKey == <<"lastModifiedAt">>

PutKeys ==
    {CommentKey, RatingsKey, CreatedAtKey,
     <<"ratings", "nifar">>, <<"ratings", "afia">>, <<"ratings", "other">>}

CommentValues == {"", "great"}

PutValue(k, c) ==
    CASE k = CommentKey -> c
      [] k = RatingsKey -> [nifar |-> 1, afia |-> 1, sijil |-> 1, naim |-> 1]
      [] k = CreatedAtKey -> ClientDate
      [] k = <<"ratings", "nifar">> -> 5
      [] k = <<"ratings", "afia">> -> 3
      [] OTHER -> 2

PutBodies ==
    {[k \in K |-> PutValue(k, c)] :
        K \in {S \in SUBSET PutKeys : Cardinality(S) <= MaxBodyKeys},
        c \in CommentValues}

PostKeys == {NameKey, ImageUrlsKey, RatingsKey, CommentKey}

PostRatingsValues == {[nifar |-> 4, other |-> 7]}

PostValue(k, rt) ==
    CASE k = NameKey -> "table"
      [] k = ImageUrlsKey -> <<"a.png">>
      [] k = RatingsKey -> rt
      [] OTHER -> "great"

PostBodies ==
    {[k \in K |-> PostValue(k, rt)] :
        K \in SUBSET PostKeys, rt \in PostRatingsValues}

Has(body, k) == k \in DOMAIN body

\* JavaScript truthiness of body[k] for a string-valued key (absent: undefined)
TruthyStr(body, k) == Has(body, k) /\ body[k] # ""
\* ... for an object- or array-valued key
TruthyObj(body, k) == Has(body, k)
\* body.ratings?.<k> || 0
RatingOrZero(body, k) ==
    IF Has(body, RatingsKey) /\ k \in DOMAIN body[RatingsKey]
    THEN body[RatingsKey][k] ELSE 0

\* ---------------------------------------------------------------- state
VARIABLES products, now, dbConnected, connectCalls, req

vars == <<products, now, dbConnected, connectCalls, req>>

IdleRequest ==
    [pc |-> "idle", method |-> "NONE", id |-> MalformedId, body |-> EmptyBody,
     mode |-> "none", op |-> EmptyBody, doc |-> NoDoc, existed |-> FALSE,
     matched |-> 0, status |-> 0, message |-> ""]

Init ==
    /\ products = [i \in {ExistingId} |-> SeedProduct]
    /\ now = 1
    /\ dbConnected = FALSE
    /\ connectCalls = 0
    /\ req = [r \in Requests |-> IdleRequest]

\* what new Date() may return: the time of the previous reading or a later one
ClockReadings == {now, now + 1}

\* ---------------------------------------------------------------- the store
\* one path of a $set document is a proper prefix of another one
PathConflict(set) ==
    \E k1 \in DOMAIN set, k2 \in DOMAIN set :
        /\ Len(k1) < Len(k2)
        /\ SubSeq(k2, 1, Len(k1)) = k1

\* the keys of ratings that the paths "ratings.<k>" of a $set document name
RatingPaths(set) == {k \in DOMAIN set : Len(k) = 2 /\ k[1] = "ratings"}

Field(doc, set, k, old) == IF k \in DOMAIN set THEN set[k] ELSE old

\* variant: the write replaces the document by one rebuilt from the $set
\* document, so a comment the $set document does not name is reset
ApplySet_rebuildsDocument(doc, set) ==
    [name |-> Field(doc, set, NameKey, doc.name),
     imageUrls |-> Field(doc, set, ImageUrlsKey, doc.imageUrls),
     ratings |->
        IF RatingsKey \in DOMAIN set THEN set[RatingsKey]
        ELSE [k \in DOMAIN doc.ratings \cup {p[2] : p \in RatingPaths(set)} |->
                IF <<"ratings", k>> \in DOMAIN set
                THEN set[<<"ratings", k>>] ELSE 0],
     comment |-> Field(doc, set, CommentKey, ""),
     createdAt |-> Field(doc, set, CreatedAtKey, doc.createdAt),
     lastModifiedAt |-> Field(doc, set, LastModifiedAtKey, doc.lastModifiedAt)]

\* {$set: set} applied to one document: every path is written, nothing else
ApplySet(doc, set) ==
    [name |-> Field(doc, set, NameKey, doc.name),
     imageUrls |-> Field(doc, set, ImageUrlsKey, doc.imageUrls),
     ratings |->
        IF RatingsKey \in DOMAIN set THEN set[RatingsKey]
        ELSE [k \in DOMAIN doc.ratings \cup {p[2] : p \in RatingPaths(set)} |->
                IF <<"ratings", k>> \in DOMAIN set
                THEN set[<<"ratings", k>>] ELSE doc.ratings[k]],
     comment |-> Field(doc, set, CommentKey, doc.comment),
     createdAt |-> Field(doc, set, CreatedAtKey, doc.createdAt),
     lastModifiedAt |-> Field(doc, set, LastModifiedAtKey, doc.lastModifiedAt)]

\* variant: updateOne called with {upsert: true}
UpdateOne_upsert(coll, id, set) ==
    IF id \in DOMAIN coll THEN [coll EXCEPT ![id] = ApplySet(@, set)]
    ELSE [i \in DOMAIN coll \cup {id} |-> IF i = id THEN ApplySet(NoDoc, set) ELSE coll[i]]

\* collection.updateOne({_id: id}, {$set: set}), no upsert
UpdateOne(coll, id, set) ==
    IF id \in DOMAIN coll THEN [coll EXCEPT ![id] = ApplySet(@, set)] ELSE coll

MatchedCount(coll, id) == IF id \in DOMAIN coll THEN 1 ELSE 0

\* collection.insertOne(doc) with the generated identifier id
InsertOne(coll, id, doc) ==
    [i \in DOMAIN coll \cup {id} |-> IF i = id THEN doc ELSE coll[i]]

UnusedIds(coll) == {i \in Ids : ObjectIdIsValid(i)} \ DOMAIN coll

\* ---------------------------------------------------------------- POST /api/products
PostValid(body) == TruthyStr(body, NameKey) /\ Has(body, ImageUrlsKey)

NewProduct(body, t) ==
    [name |-> body[NameKey],
     imageUrls |-> body[ImageUrlsKey],
     ratings |-> [k \in Reviewers |-> RatingOrZero(body, k)],
     comment |-> IF TruthyStr(body, CommentKey) THEN body[CommentKey] ELSE "",
     createdAt |-> t,
     lastModifiedAt |-> NoTime]

\* ---------------------------------------------------------------- PUT /api/products/:id
CommentOnly(updates) ==
    TruthyStr(updates, CommentKey) /\ ~TruthyObj(updates, RatingsKey)

\* variant: key.startsWith("ratings"), without the dot
IsUpdatingRatings_noDot(updates) ==
    \E k \in DOMAIN updates : k[1] = "ratings"

\* Object.keys(updates).some((key) => key.startsWith("ratings."))
IsUpdatingRatings(updates) ==
    \E k \in DOMAIN updates : Len(k) >= 2 /\ k[1] = "ratings"

\* variant: the identifier is checked after the mode is selected
PutDecision_modeFirst(id, updates) ==
    IF CommentOnly(updates) THEN (IF ObjectIdIsValid(id) THEN "comment" ELSE "invalidId")
    ELSE IF ~IsUpdatingRatings(updates) THEN "reject"
    ELSE IF ~ObjectIdIsValid(id) THEN "invalidId"
    ELSE "ratings"

\* the branch the handler takes, in the order of its checks
PutDecision(id, updates) ==
    IF ~ObjectIdIsValid(id) THEN "invalidId"
    ELSE IF CommentOnly(updates) THEN "comment"
    ELSE IF ~IsUpdatingRatings(updates) THEN "reject"
    ELSE "ratings"

\* updates.lastModifiedAt = new Date(); {$set: updates}
RatingsUpdateDoc(updates, t) ==
    [k \in DOMAIN updates \cup {LastModifiedAtKey} |->
        IF k = LastModifiedAtKey THEN t ELSE updates[k]]

\* variant: the comment-only branch passes the whole body to $set
CommentUpdateDoc_wholeBody(updates, t) == RatingsUpdateDoc(updates, t)

\* updateDoc.$set of the comment-only branch
CommentUpdateDoc(updates, t) ==
    [k \in {CommentKey, LastModifiedAtKey} |->
        IF k = CommentKey THEN updates[CommentKey] ELSE t]

\* ---------------------------------------------------------------- actions
\* res.status(st).json(...): the request is answered
Respond(rq, st, msg) == [rq EXCEPT !.pc = "done", !.status = st, !.message = msg]

InFlightPosts == {r \in Requests : req[r].method = "POST" /\ req[r].pc # "done"}

\* handler: a request enters and awaits ensureDBConnected
Arrive(r, m, id, body) ==
    /\ req[r].pc = "idle"
    /\ m = "POST" =>
         Cardinality(InFlightPosts) < Cardinality(UnusedIds(products))
    /\ IF ~dbConnected
       THEN /\ connectCalls' = connectCalls + 1
            /\ req' = [req EXCEPT ![r].pc = "connecting", ![r].method = m,
                                  ![r].id = id, ![r].body = body]
       ELSE /\ connectCalls' = connectCalls
            /\ req' = [req EXCEPT ![r].pc = "routed", ![r].method = m,
                                  ![r].id = id, ![r].body = body]
    /\ UNCHANGED <<products, now, dbConnected>>

\* connectToDB resolves; ensureDBConnected sets the flag; app(req, res)
ConnectResolve(r) ==
    /\ req[r].pc = "connecting"
    /\ dbConnected' = TRUE
    /\ req' = [req EXCEPT ![r].pc = "routed"]
    /\ UNCHANGED <<products, now, connectCalls>>

PostBegin(r) ==
    /\ req[r].pc = "routed"
    /\ req[r].method = "POST"
    /\ IF ~PostValid(req[r].body)
       THEN /\ req' = [req EXCEPT ![r] =
                    Respond(@, 400, "Missing required fields: name and imageUrls")]
            /\ now' = now
       ELSE \E t \in ClockReadings :
               /\ now' = t
               /\ req' = [req EXCEPT ![r].pc = "awaitInsert",
                                      ![r].doc = NewProduct(req[r].body, t)]
    /\ UNCHANGED <<products, dbConnected, connectCalls>>

\* the store executes the pending insertOne
StoreInsert(r) ==
    /\ req[r].pc = "awaitInsert"
    /\ \E id \in UnusedIds(products) :
         /\ products' = InsertOne(products, id, req[r].doc)
         /\ req' = [req EXCEPT ![r].pc = "inserted", ![r].id = id]
    /\ UNCHANGED <<now, dbConnected, connectCalls>>

PostRespond(r) ==
    /\ req[r].pc = "inserted"
    /\ req' = [req EXCEPT ![r] = Respond(@, 201, "created")]
    /\ UNCHANGED <<products, now, dbConnected, connectCalls>>

\* the handler up to its first await; existed records whether the addressed
\* product is in the store when the handler runs
PutBegin(r) ==
    /\ req[r].pc = "routed"
    /\ req[r].method = "PUT"
    /\ LET d == PutDecision(req[r].id, req[r].body)
           rq == [req[r] EXCEPT !.existed = req[r].id \in DOMAIN products]
       IN
       CASE d = "invalidId" ->
              /\ req' = [req EXCEPT ![r] = Respond(rq, 400, "Invalid product ID format")]
              /\ now' = now
         [] d = "reject" ->
              /\ req' = [req EXCEPT ![r] =
                            Respond(rq, 400, "Rating is required for product updates")]
              /\ now' = now
         [] d = "comment" ->
              \E t \in ClockReadings :
                 /\ now' = t
                 /\ req' = [req EXCEPT ![r] =
                            [rq EXCEPT !.pc = "awaitUpdate", !.mode = "comment",
                                       !.op = CommentUpdateDoc(req[r].body, t)]]
         [] OTHER ->
              \E t \in ClockReadings :
                 /\ now' = t
                 /\ req' = [req EXCEPT ![r] =
                            [rq EXCEPT !.pc = "awaitUpdate", !.mode = "ratings",
                                       !.op = RatingsUpdateDoc(req[r].body, t)]]
    /\ UNCHANGED <<products, dbConnected, connectCalls>>

\* the store executes the pending updateOne, or rejects its $set document
StoreUpdate(r) ==
    /\ req[r].pc = "awaitUpdate"
    /\ IF PathConflict(req[r].op)
       THEN /\ products' = products
            /\ req' = [req EXCEPT ![r].pc = "storeError"]
       ELSE /\ products' = UpdateOne(products, req[r].id, req[r].op)
            /\ req' = [req EXCEPT ![r].pc = "updated",
                                  ![r].matched = MatchedCount(products, req[r].id)]
    /\ UNCHANGED <<now, dbConnected, connectCalls>>

\* the handler after its await: the catch block, the 404, or the success response
PutRespond(r) ==
    /\ req[r].pc \in {"updated", "storeError"}
    /\ req' = [req EXCEPT ![r] =
                IF req[r].pc = "storeError" THEN Respond(@, 500, "Internal server error")
                ELSE IF req[r].matched = 0 THEN Respond(@, 404, "Product not found")
                ELSE IF req[r].mode = "comment"
                     THEN Respond(@, 200, "Comment updated successfully")
                     ELSE Respond(@, 200, "Product updated successfully")]
    /\ UNCHANGED <<products, now, dbConnected, connectCalls>>

Next ==
    \/ \E r \in Requests, id \in Ids, body \in PutBodies : Arrive(r, "PUT", id, body)
    \/ \E r \in Requests, body \in PostBodies : Arrive(r, "POST", MalformedId, body)
    \/ \E r \in Requests : ConnectResolve(r)
    \/ \E r \in Requests : PostBegin(r)
    \/ \E r \in Requests : StoreInsert(r)
    \/ \E r \in Requests : PostRespond(r)
    \/ \E r \in Requests : PutBegin(r)
    \/ \E r \in Requests : StoreUpdate(r)
    \/ \E r \in Requests : PutRespond(r)

Spec == Init /\ [][Next]_vars

\* ---------------------------------------------------------------- vocabulary of the claims
Answered(r) == req[r].pc = "done"
IsPut(r) == req[r].method = "PUT"
WellFormedId(id) == id \in {ExistingId, FreshId}
BodyHasComment(b) == <<"comment">> \in DOMAIN b
\* a key "ratings.<something>"
BodyHasRatingsDotKey(b) == \E k \in DOMAIN b : Len(k) = 2 /\ k[1] = "ratings"
\* a key "ratings" or "ratings.<something>"
BodyHasRatingsKey(b) == \E k \in DOMAIN b : k[1] = "ratings"
\* the request has passed the synchronous part of its route handler
Handled(r) == req[r].pc \in {"awaitUpdate", "updated", "storeError", "done"}
NoOperationIssued(r) == req[r].op = EmptyBody
StoreStepOf(r) == req[r].pc = "awaitUpdate" /\ req'[r].pc = "updated"

\* C1: a PUT on an existing product whose body has both a comment and a
\* "ratings.<k>" key (and no other ratings key) is handled in ratings mode and
\* answered 200 'Product updated successfully'.
C1_BothKeysMeansRatingsMode ==
    \A r \in Requests :
        (/\ Answered(r) /\ IsPut(r) /\ req[r].existed
         /\ BodyHasComment(req[r].body)
         /\ BodyHasRatingsDotKey(req[r].body)
         /\ <<"ratings">> \notin DOMAIN req[r].body)
        => /\ req[r].mode = "ratings"
           /\ req[r].status = 200
           /\ req[r].message = "Product updated successfully"

\* C2: the store write of a comment-only update on an existing product changes
\* only comment (to the supplied value) and lastModifiedAt (to the handler's
\* timestamp); every other field of the product, the set of stored ids and
\* every other product are as before.
C2_CommentOnlyFrame ==
    [][\A r \in Requests :
        (StoreStepOf(r) /\ req[r].mode = "comment" /\ req[r].id \in DOMAIN products)
        => /\ DOMAIN products' = DOMAIN products
           /\ \A i \in DOMAIN products :
                products'[i] =
                    IF i = req[r].id
                    THEN [products[i] EXCEPT
                            !.comment = req[r].body[<<"comment">>],
                            !.lastModifiedAt = req[r].op[<<"lastModifiedAt">>]]
                    ELSE products[i]]_vars

\* a comment-only write has happened for a body that carries more than the comment
C2_Witness ==
    \E r \in Requests :
        /\ req[r].pc = "updated" /\ req[r].mode = "comment" /\ req[r].matched = 1
        /\ Cardinality(DOMAIN req[r].body) >= 2
        /\ products[req[r].id].comment = req[r].body[<<"comment">>]
        /\ products[req[r].id].name = "chair"

\* C3: a PUT with a well-formed id whose body has neither a comment key nor a
\* "ratings.<k>" key is answered 400 by the route handler itself and never
\* issues an operation to the store.
C3_NeitherKeyRejected ==
    \A r \in Requests :
        (/\ IsPut(r) /\ WellFormedId(req[r].id) /\ Handled(r)
         /\ ~BodyHasComment(req[r].body)
         /\ ~BodyHasRatingsDotKey(req[r].body))
        => /\ Answered(r)
           /\ req[r].status = 400
           /\ req[r].message = "Rating is required for product updates"
           /\ NoOperationIssued(r)

\* both the empty body and a body whose only ratings key is the undotted
\* "ratings" have been rejected
C3_Witness ==
    \E r1 \in Requests, r2 \in Requests :
        /\ Answered(r1) /\ IsPut(r1) /\ req[r1].id = ExistingId
        /\ req[r1].body = EmptyBody /\ req[r1].status = 400
        /\ Answered(r2) /\ IsPut(r2) /\ req[r2].id = ExistingId
        /\ DOMAIN req[r2].body = {<<"ratings">>} /\ req[r2].status = 400
        /\ products[ExistingId] = SeedProduct

\* C4: a PUT with a malformed id is answered 400 'Invalid product ID format'
\* whatever its body, and never issues an operation to the store.
C4_MalformedIdRejectedFirst ==
    \A r \in Requests :
        (IsPut(r) /\ ~WellFormedId(req[r].id) /\ Handled(r))
        => /\ Answered(r)
           /\ req[r].status = 400
           /\ req[r].message = "Invalid product ID format"
           /\ NoOperationIssued(r)

\* a malformed id has been rejected both with a body that would select a mode
\* and with a body that would be rejected for missing rating or comment
C4_Witness ==
    \E r1 \in Requests, r2 \in Requests :
        /\ Answered(r1) /\ IsPut(r1) /\ req[r1].id = MalformedId
        /\ req[r1].body = EmptyBody /\ req[r1].status = 400
        /\ Answered(r2) /\ IsPut(r2) /\ req[r2].id = MalformedId
        /\ BodyHasRatingsDotKey(req[r2].body) /\ req[r2].status = 400

\* C5: an update (in either mode) that the store executes for a well-formed id
\* matching no product leaves the store exactly as it was, and the request is
\* then answered 404 'Product not found'.
C5_NotFoundNoUpsert ==
    [][\A r \in Requests :
        /\ (StoreStepOf(r) /\ req[r].id \notin DOMAIN products)
           => (products' = products /\ req'[r].matched = 0)
        /\ (req[r].pc = "updated" /\ req[r].matched = 0 /\ Answered(r)')
           => (req'[r].status = 404 /\ req'[r].message = "Product not found")]_vars

\* one update in each mode has been answered 404 and the missing id is still missing
C5_Witness ==
    \E r1 \in Requests, r2 \in Requests :
        /\ Answered(r1) /\ req[r1].mode = "comment" /\ req[r1].status = 404
        /\ Answered(r2) /\ req[r2].mode = "ratings" /\ req[r2].status = 404
        /\ req[r1].id = FreshId /\ req[r2].id = FreshId
        /\ FreshId \notin DOMAIN products

\* C6: every stored product's ratings mapping has exactly the four reviewer keys.
C6_RatingsHaveFourKeys ==
    \A i \in DOMAIN products : DOMAIN products[i].ratings = Reviewers

\* C7: no step changes the createdAt of a stored product.
C7_CreatedAtImmutable ==
    [][\A i \in DOMAIN products : products'[i].createdAt = products[i].createdAt]_vars

\* C8: connectToDB is invoked at most once.
C8_ConnectAtMostOnce == connectCalls <= 1

\* C9: a PUT on an existing product whose body has a comment key (whatever its
\* string value) and no ratings key is answered 200 'Comment updated successfully'.
C9_CommentPresenceSelectsCommentMode ==
    \A r \in Requests :
        (/\ Answered(r) /\ IsPut(r) /\ req[r].existed
         /\ BodyHasComment(req[r].body)
         /\ ~BodyHasRatingsKey(req[r].body))
        => /\ req[r].mode = "comment"
           /\ req[r].status = 200
           /\ req[r].message = "Comment updated successfully"

\* r1 is a comment-only update {comment: c} with c non-empty, r2 a ratings
\* update whose keys are all "ratings.<reviewer>", both on the same existing
\* product, and no other request was routed to an update of that product
CrossModePair(r1, r2) ==
    /\ r1 # r2 /\ IsPut(r1) /\ IsPut(r2)
    /\ req[r1].id = req[r2].id /\ req[r1].existed /\ req[r2].existed
    /\ DOMAIN req[r1].body = {<<"comment">>} /\ req[r1].body[<<"comment">>] # ""
    /\ DOMAIN req[r2].body # {}
    /\ \A k \in DOMAIN req[r2].body : Len(k) = 2 /\ k[1] = "ratings" /\ k[2] \in Reviewers
    /\ \A r3 \in Requests \ {r1, r2} :
          ~(IsPut(r3) /\ req[r3].id = req[r1].id /\ req[r3].pc # "idle")

\* C10: once a concurrent comment-only update and ratings update of the same
\* product have both been answered, both were answered 200 and the product
\* holds the comment and every supplied rating.
C10_NoLostUpdateAcrossModes ==
    \A r1 \in Requests, r2 \in Requests :
        (CrossModePair(r1, r2) /\ Answered(r1) /\ Answered(r2))
        => /\ req[r1].status = 200 /\ req[r2].status = 200
           /\ products[req[r1].id].comment = req[r1].body[<<"comment">>]
           /\ \A k \in DOMAIN req[r2].body :
                products[req[r1].id].ratings[k[2]] = req[r2].body[k]

\* both updates were answered, and the comment was written before the ratings
\* (the ratings update carries the later timestamp and it is the stored one)
C10_Witness ==
    \E r1 \in Requests, r2 \in Requests :
        /\ CrossModePair(r1, r2) /\ Answered(r1) /\ Answered(r2)
        /\ Cardinality(DOMAIN req[r2].body) = 2
        /\ req[r1].op[<<"lastModifiedAt">>] < req[r2].op[<<"lastModifiedAt">>]
        /\ products[req[r1].id].lastModifiedAt = req[r2].op[<<"lastModifiedAt">>]
        /\ products[req[r1].id].comment = "great"

====
